---- MODULE Spec2Model ----
(***************************************************************************)
(* The dependency-aware step scheduler of app/agents/manager.py:           *)
(* AgentManager.execute_workflow, Workflow.get_ready_steps, the step       *)
(* executor _execute_workflow_step and the agent pool.  The program runs   *)
(* on one asyncio event loop: a coroutine runs without interruption from   *)
(* one await to the next, so every action below is one such segment.       *)
(***************************************************************************)
EXTENDS Integers, Sequences, FiniteSets, TLC

\* ------------------------------------------------------------------ bounds
\* Steps added over all workflows, and execute_workflow calls made.
MaxSteps == 3
MaxRuns == 2

\* Replies of the synchronous calls that are kept.
MaxReplies == 1

\* ------------------------------------------------------------- value domains
\* AgentStatus values (base.py 23-29).
IDLE == "idle"
RUNNING == "running"
COMPLETED == "completed"
ERROR == "error"

\* Python's None, for the Optional[str] fields.
None == "None"

\* Workflow ids a caller may pass: "w1" is the id create_workflow hands out,
\* "w0" is an id that create_workflow never returned.
WorkflowIds == {"w1"}
UnknownWorkflowId == "w0"

\* The AgentType a step requests (base.py 13-21).  The default pool entry has
\* type web3_builder; no entry of type analysis exists at start, so the first
\* executor creates one and later executors find it.
AgentTypes == {"analysis"}

\* A dependency id that names no step of any workflow (step ids are 1..MaxSteps).
MissingStepId == MaxSteps + 1

\* Optional[Dict]: None, or a dict given by the set of its items.
NoneDict == [isNone |-> TRUE, items |-> {}]
Dict(items) == [isNone |-> FALSE, items |-> items]

\* Python truthiness of an Optional[Dict] ("if step.result").
Truthy(d) == ~d.isNone /\ d.items # {}

\* input_data: a dict from keys to values; the empty dict.
EmptyDict == << >>

\* The key f"dependency_{dep_id}", and a key of the caller's own.
DependencyKey(dep_id) == <<"dependency_", dep_id>>
QueryKey == <<"query", 0>>

\* A value the caller supplies (no agent produces it).
CallerValue == Dict({0})

VARIABLES
    workflows,     \* AgentManager.workflows: id -> [status, results, completed_at]
    steps,         \* every WorkflowStep, in creation order; the index is the step id
    agents,        \* AgentManager.agents, in insertion order: [type, status]
    active_tasks,  \* AgentManager.active_tasks: the steps whose AgentTask is registered
    calls,         \* the execute_workflow invocations made so far
    executor,      \* per step: the _execute_workflow_step coroutine
    replies        \* what the synchronous calls of the API gave their callers

vars == <<workflows, steps, agents, active_tasks, calls, executor, replies>>

StepIds == 1..Len(steps)

\* Workflow.steps of workflow wid (list order is id order).
StepsOf(wid) == {s \in StepIds : steps[s].wf = wid}

\* ------------------------------------------------------------------- Init
\* AgentManager.__init__: no workflow, no task, the default web3_builder agent.
Init ==
    /\ workflows = << >>
    /\ steps = << >>
    /\ agents = << [type |-> "web3_builder", status |-> IDLE] >>
    /\ active_tasks = {}
    /\ calls = << >>
    /\ executor = << >>
    /\ replies = << >>

\* A busy loop that never awaits keeps the event loop: nothing else runs.
Spinning == \E c \in 1..Len(calls) : calls[c].pc = "spin"

\* ------------------------------------------------------- workflow construction
create_workflow(wid) ==
    /\ ~Spinning
    /\ wid \notin DOMAIN workflows
    /\ workflows' = [w \in DOMAIN workflows \cup {wid} |->
                        IF w = wid
                        THEN [status |-> IDLE, results |-> << >>, completed_at |-> None]
                        ELSE workflows[w]]
    /\ UNCHANGED <<steps, agents, active_tasks, calls, executor, replies>>

\* The depends_on lists a caller passes for the step that will get id n: no
\* dependency, earlier steps, the step itself, a later step, a missing id.
DependsOnInputs(n) ==
    {d \in { {}, {1}, {n - 1}, 1..(n - 1), {n}, {n + 1}, {MissingStepId} } :
        d \subseteq (1..MissingStepId)}

\* The input_data dicts a caller passes for the step that will get id n: empty,
\* a key of its own, and keys named like the dependency keys of earlier steps.
InputDataInputs(n) ==
    {EmptyDict, [k \in {QueryKey} |-> CallerValue]}
        \cup {[k \in {QueryKey, DependencyKey(d)} |-> CallerValue] : d \in {n - 1} \cap (1..MaxSteps)}

WorkflowStep(wid, agent_type, input_data, depends_on) ==
    [wf |-> wid, agent_type |-> agent_type, input_data |-> input_data,
     depends_on |-> depends_on, status |-> IDLE, result |-> NoneDict, error |-> None]

\* No executor yet.  input is the input_data handed to the agent; plan is what the
\* agent will answer for the step when that is fixed beforehand ("any": not fixed).
NoExecutor ==
    [pc |-> "none", agent |-> 0, call |-> 0, wave |-> 0, outcome |-> "none", invoked |-> 0,
     input |-> EmptyDict, plan |-> "any"]

\* add_workflow_step on a registered workflow, with the answer of the agent for the
\* step fixed to plan; callers add the steps before they schedule the workflow.
AddStep(wid, agent_type, input_data, depends_on, plan) ==
    /\ ~Spinning
    /\ wid \in DOMAIN workflows
    /\ Len(steps) < MaxSteps
    /\ Len(calls) = 0
    /\ steps' = Append(steps, WorkflowStep(wid, agent_type, input_data, depends_on))
    /\ executor' = Append(executor, [NoExecutor EXCEPT !.plan = plan])
    /\ UNCHANGED <<workflows, agents, active_tasks, calls, replies>>

\* add_workflow_step, the agent free to answer anything.
add_workflow_step(wid, agent_type, input_data, depends_on) ==
    AddStep(wid, agent_type, input_data, depends_on, "any")


\* ------------------------------------------------------- readiness evaluator
\* get_ready_steps with any() where the code has all(): one completed dependency
\* is enough.
get_ready_steps_any(wid) ==
    {s \in StepsOf(wid) :
        /\ steps[s].status = IDLE
        /\ LET dependencies_met ==
                   \E dep_id \in steps[s].depends_on :
                       \E t \in StepsOf(wid) : t = dep_id /\ steps[t].status = COMPLETED
           IN steps[s].depends_on = {} \/ dependencies_met}

\* get_ready_steps that takes a dependency in ERROR for a finished one.
get_ready_steps_terminal(wid) ==
    {s \in StepsOf(wid) :
        /\ steps[s].status = IDLE
        /\ LET dependencies_met ==
                   \A dep_id \in steps[s].depends_on :
                       \E t \in StepsOf(wid) :
                           t = dep_id /\ steps[t].status \in {COMPLETED, ERROR}
           IN steps[s].depends_on = {} \/ dependencies_met}

\* get_ready_steps that skips the dependency ids that name no step.
get_ready_steps_lenient(wid) ==
    {s \in StepsOf(wid) :
        /\ steps[s].status = IDLE
        /\ \A dep_id \in steps[s].depends_on \cap StepsOf(wid) :
               steps[dep_id].status = COMPLETED}

\* get_ready_steps that takes a dependency that has started for a finished one.
get_ready_steps_started(wid) ==
    {s \in StepsOf(wid) :
        /\ steps[s].status = IDLE
        /\ LET dependencies_met ==
                   \A dep_id \in steps[s].depends_on :
                       \E t \in StepsOf(wid) :
                           t = dep_id /\ steps[t].status \in {RUNNING, COMPLETED}
           IN steps[s].depends_on = {} \/ dependencies_met}

\* Workflow.get_ready_steps: the idle steps all of whose dependencies are the
\* id of a completed step of the same workflow.
get_ready_steps(wid) ==
    {s \in StepsOf(wid) :
        /\ steps[s].status = IDLE
        /\ LET dependencies_met ==
                   \A dep_id \in steps[s].depends_on :
                       \E t \in StepsOf(wid) : t = dep_id /\ steps[t].status = COMPLETED
           IN steps[s].depends_on = {} \/ dependencies_met}

\* is_completed that takes a workflow without steps for one that has not run.
is_completed_nonempty(wid) ==
    /\ StepsOf(wid) # {}
    /\ \A s \in StepsOf(wid) : steps[s].status \in {COMPLETED, ERROR}

\* Workflow.is_completed
is_completed(wid) ==
    \A s \in StepsOf(wid) : steps[s].status \in {COMPLETED, ERROR}

\* incomplete_steps of the stuck check
incomplete_steps(wid) == {s \in StepsOf(wid) : steps[s].status = IDLE}

\* ------------------------------------------------------------ scheduler loop
NoReturn == [status |-> None, results |-> << >>, completed_at |-> None, deadlock |-> FALSE]

NewCall(wid) == [wid |-> wid, pc |-> "start", wave |-> {}, nwaves |-> 0, ret |-> NoReturn]

\* The dispatch loop without "step.status = AgentStatus.RUNNING".
MarkRunning_forgotten(ready) == steps

\* A dispatch loop that marks the first ready step only.
MarkRunning_first(ready) ==
    [s \in StepIds |->
        IF s \in ready /\ \A t \in ready : s <= t
        THEN [steps[s] EXCEPT !.status = RUNNING] ELSE steps[s]]

\* "for step in ready_steps: step.status = RUNNING"
MarkRunning(ready) ==
    [s \in StepIds |-> IF s \in ready THEN [steps[s] EXCEPT !.status = RUNNING] ELSE steps[s]]

\* "task = self._execute_workflow_step(workflow, step)": the coroutine exists and
\* has not run yet.
CreateTasks(c, ready, wave) ==
    [s \in StepIds |->
        IF s \in ready
        THEN [executor[s] EXCEPT !.pc = "created", !.call = c, !.wave = wave,
                                 !.invoked = executor[s].invoked + 1]
        ELSE executor[s]]

\* The final status with all() where the code has any().
final_status_all(wid) ==
    IF StepsOf(wid) # {} /\ \A s \in StepsOf(wid) : steps[s].status = ERROR
    THEN ERROR ELSE COMPLETED

\* "Determine final workflow status" after the loop.
final_status(wid) ==
    IF \E s \in StepsOf(wid) : steps[s].status = ERROR THEN ERROR ELSE COMPLETED

\* A collection that takes only the results that workflow.results does not hold
\* yet.
collect_results_new(wid) ==
    [s \in {t \in StepsOf(wid) : Truthy(steps[t].result)
                                     /\ t \notin DOMAIN workflows[wid].results}
        |-> steps[s].result]

\* "Collect results": the steps whose result is truthy.
collect_results(wid) ==
    [s \in {t \in StepsOf(wid) : Truthy(steps[t].result)} |-> steps[s].result]

\* The loop has ended (deadlock tells through which exit): set the final status,
\* collect the results, return.
Finish(c, wid, cs, deadlock) ==
    LET status == final_status(wid)
        completed_at == IF status = COMPLETED THEN "utcnow" ELSE workflows[wid].completed_at
        results == collect_results(wid)
    IN /\ workflows' = [workflows EXCEPT ![wid] =
                           [status |-> status, results |-> results,
                            completed_at |-> completed_at]]
       /\ calls' = [cs EXCEPT ![c].pc = "returned", ![c].wave = {},
                              ![c].ret = [status |-> status, results |-> results,
                                          completed_at |-> completed_at,
                                          deadlock |-> deadlock]]
       /\ UNCHANGED <<steps, agents, active_tasks, executor, replies>>

\* No step is ready and none is idle: "continue" re-enters the loop without an
\* await, and the same evaluation repeats for ever.
Continue(c, wid, cs, status0) ==
    /\ workflows' = [workflows EXCEPT ![wid].status = status0]
    /\ calls' = [cs EXCEPT ![c].pc = "spin", ![c].wave = {}]
    /\ UNCHANGED <<steps, agents, active_tasks, executor, replies>>

\* Mark the ready steps, create their executors, await asyncio.gather.
Dispatch(c, wid, cs, status0, ready) ==
    /\ workflows' = [workflows EXCEPT ![wid].status = status0]
    /\ steps' = MarkRunning(ready)
    /\ executor' = CreateTasks(c, ready, cs[c].nwaves + 1)
    /\ calls' = [cs EXCEPT ![c].pc = "gather", ![c].wave = ready,
                           ![c].nwaves = cs[c].nwaves + 1]
    /\ UNCHANGED <<agents, active_tasks, replies>>

\* The loop from "while not workflow.is_completed()" up to the next await, the
\* return, or the endless continue.
RunLoop(c, wid, cs, status0) ==
    LET ready_steps == get_ready_steps(wid)
    IN IF is_completed(wid) THEN Finish(c, wid, cs, FALSE)
       ELSE IF ready_steps = {}
            THEN IF incomplete_steps(wid) # {}
                 THEN Finish(c, wid, cs, TRUE)
                 ELSE Continue(c, wid, cs, status0)
            ELSE Dispatch(c, wid, cs, status0, ready_steps)

\* execute_workflow is called: an unregistered id raises ValueError (the except
\* clause finds no workflow to mark and re-raises); otherwise the workflow is
\* marked RUNNING and the loop starts.
execute_workflow(wid, limit) ==
    /\ ~Spinning
    /\ Len(calls) < limit
    /\ LET c == Len(calls) + 1
           cs == Append(calls, NewCall(wid))
       IN IF wid \notin DOMAIN workflows
          THEN /\ calls' = [cs EXCEPT ![c].pc = "raised"]
               /\ UNCHANGED <<workflows, steps, agents, active_tasks, executor, replies>>
          ELSE RunLoop(c, wid, cs, RUNNING)

\* A wait that returns with the first finished task of the wave.
WaveSettled_first(c) == \E s \in calls[c].wave : executor[s].pc = "done"

\* asyncio.gather returns once every task of the wave has finished.
WaveSettled(c) == \A s \in calls[c].wave : executor[s].pc = "done"

\* gather without return_exceptions over executors that let an exception out: the
\* call raises when a task of its wave raised.
Resume_raising(c) ==
    /\ ~Spinning
    /\ c \in 1..Len(calls)
    /\ calls[c].pc = "gather"
    /\ WaveSettled(c)
    /\ IF \E s \in calls[c].wave : executor[s].outcome \in {"raise", "create_raise"}
       THEN /\ calls' = [calls EXCEPT ![c].pc = "raised", ![c].wave = {}]
            /\ workflows' = [workflows EXCEPT ![calls[c].wid].status = ERROR]
            /\ UNCHANGED <<steps, agents, active_tasks, executor, replies>>
       ELSE RunLoop(c, calls[c].wid, calls, workflows[calls[c].wid].status)

\* The call resumes after its await.
Resume(c) ==
    /\ ~Spinning
    /\ c \in 1..Len(calls)
    /\ calls[c].pc = "gather"
    /\ WaveSettled(c)
    /\ RunLoop(c, calls[c].wid, calls, workflows[calls[c].wid].status)

\* The endless loop of a call that took "continue".
Spin(c) ==
    /\ c \in 1..Len(calls)
    /\ calls[c].pc = "spin"
    /\ ~is_completed(calls[c].wid)
    /\ get_ready_steps(calls[c].wid) = {}
    /\ incomplete_steps(calls[c].wid) = {}
    /\ UNCHANGED vars


\* ------------------------------------------------------------ synchronous API
\* The dict that get_workflow_status returns (id, name, description and
\* created_at never change and are left out); None is the reply without a dict.
NoneReport == [isNone |-> TRUE, status |-> None, completed_at |-> None, steps |-> << >>]

StatusReport(wid) ==
    [isNone |-> FALSE,
     status |-> workflows[wid].status,
     completed_at |-> workflows[wid].completed_at,
     steps |-> [s \in StepsOf(wid) |->
                   [agent_type |-> steps[s].agent_type, status |-> steps[s].status,
                    depends_on |-> steps[s].depends_on, error |-> steps[s].error]]]

Reply(op, wid, raised, value) == [op |-> op, wid |-> wid, raised |-> raised, value |-> value]

\* A get_workflow_status that brings workflow.status up to date with the steps
\* before it reports.
get_workflow_status_refreshing(wid) ==
    /\ ~Spinning
    /\ Len(replies) < MaxReplies
    /\ workflows' = IF wid \in DOMAIN workflows /\ StepsOf(wid) # {} /\ is_completed(wid)
                    THEN [workflows EXCEPT ![wid].status = final_status(wid)]
                    ELSE workflows
    /\ replies' = Append(replies,
                         Reply("get_workflow_status", wid, FALSE,
                               IF wid \in DOMAIN workflows
                               THEN [StatusReport(wid) EXCEPT !.status = workflows'[wid].status]
                               ELSE NoneReport))
    /\ UNCHANGED <<steps, agents, active_tasks, calls, executor>>

\* get_workflow_status: None for an id that is not registered, else the report.
get_workflow_status(wid) ==
    /\ ~Spinning
    /\ Len(replies) < MaxReplies
    /\ replies' = Append(replies,
                         Reply("get_workflow_status", wid, FALSE,
                               IF wid \in DOMAIN workflows THEN StatusReport(wid)
                               ELSE NoneReport))
    /\ UNCHANGED <<workflows, steps, agents, active_tasks, calls, executor>>

\* add_workflow_step that registers the workflow it does not find.
add_workflow_step_registering(wid) ==
    /\ ~Spinning
    /\ wid \notin DOMAIN workflows
    /\ Len(replies) < MaxReplies
    /\ workflows' = [w \in DOMAIN workflows \cup {wid} |->
                        IF w = wid
                        THEN [status |-> IDLE, results |-> << >>, completed_at |-> None]
                        ELSE workflows[w]]
    /\ replies' = Append(replies, Reply("add_workflow_step", wid, TRUE, NoneReport))
    /\ UNCHANGED <<steps, agents, active_tasks, calls, executor>>

\* add_workflow_step with an id that is not registered: ValueError, before any
\* step is built.
add_workflow_step_raises(wid) ==
    /\ ~Spinning
    /\ wid \notin DOMAIN workflows
    /\ Len(replies) < MaxReplies
    /\ replies' = Append(replies, Reply("add_workflow_step", wid, TRUE, NoneReport))
    /\ UNCHANGED <<workflows, steps, agents, active_tasks, calls, executor>>

\* A caller that holds the manager assigns workflow.status = ERROR while a call
\* of execute_workflow is at its await.
mark_workflow_error(wid) ==
    /\ ~Spinning
    /\ wid \in DOMAIN workflows
    /\ \E c \in 1..Len(calls) : calls[c].wid = wid /\ calls[c].pc = "gather"
    /\ workflows[wid].status # ERROR
    /\ workflows' = [workflows EXCEPT ![wid].status = ERROR]
    /\ UNCHANGED <<steps, agents, active_tasks, calls, executor, replies>>

\* ------------------------------------------------------------- agent pool
\* A scan that finds no entry, so that every lookup creates one.
IdleAgentsOfType_none(agent_type) == {}

\* The scan of _get_or_create_agent_for_step: the pool entries of the step's type
\* that are idle (the first of them is returned).
IdleAgentsOfType(agent_type) ==
    {a \in 1..Len(agents) : agents[a].type = agent_type /\ agents[a].status = IDLE}

\* A scan that keeps going and returns the last match.
FirstOf_last(S) == CHOOSE a \in S : \A b \in S : a >= b

\* The first entry of S in the order of the pool.
FirstOf(S) == CHOOSE a \in S : \A b \in S : a <= b

\* create_agent: the new entry, registered after the existing ones.
create_agent(agent_type) == Append(agents, [type |-> agent_type, status |-> IDLE])

\* AgentManager.create_agent called by a client of the manager, before a run (the
\* clients register at most one entry for each step that may be added).
register_agent(agent_type) ==
    /\ ~Spinning
    /\ Len(calls) < MaxRuns
    /\ \A c \in 1..Len(calls) : calls[c].pc \in {"returned", "raised"}
    /\ Len(agents) <= MaxSteps
    /\ agents' = create_agent(agent_type)
    /\ UNCHANGED <<workflows, steps, active_tasks, calls, executor, replies>>

\* chat_with_agent: BaseAgent.process_message up to its await marks the agent
\* RUNNING.  Callers chat with an agent while no workflow is run and a run is
\* still to come.
process_message(a) ==
    /\ ~Spinning
    /\ Len(calls) < MaxRuns
    /\ \A c \in 1..Len(calls) : calls[c].pc \in {"returned", "raised"}
    /\ a \in 1..Len(agents)
    /\ agents[a].status # RUNNING
    /\ agents' = [agents EXCEPT ![a].status = RUNNING]
    /\ UNCHANGED <<workflows, steps, active_tasks, calls, executor, replies>>

\* process_message after its await: COMPLETED, or ERROR when the response raised.
\* (The last message in flight to end is the one that the status keeps.)
process_message_ends(a, status) ==
    /\ ~Spinning
    /\ a \in 1..Len(agents)
    /\ agents[a].status = RUNNING
    /\ agents' = [agents EXCEPT ![a].status = status]
    /\ UNCHANGED <<workflows, steps, active_tasks, calls, executor, replies>>

\* ------------------------------------------------------------ step executor
\* The outcomes of "await agent.execute_task(task)" (BaseAgent.execute_task): a
\* task with status COMPLETED and its output, a task with status ERROR and its
\* message, or an exception.
AgentOutcomes == {"completed", "error", "raise"}

\* With them, a task with status COMPLETED whose output_data is the empty dict.
DataOutcomes == AgentOutcomes \cup {"completed_empty"}

\* The output of the agent that ran step s.
OutputOf(s) == Dict({s})

\* "Add results from dependent steps": the dependencies of step s that are steps
\* of its workflow and have a truthy result.
InjectedDependencies(s) ==
    {d \in steps[s].depends_on \cap StepsOf(steps[s].wf) : Truthy(steps[d].result)}

\* "Prepare input data with dependencies": a copy of step.input_data in which
\* input_data[f"dependency_{dep_id}"] is assigned for each such dependency.
MergedInput(s) ==
    LET deps == InjectedDependencies(s)
        keys == DOMAIN steps[s].input_data \cup {DependencyKey(d) : d \in deps}
    IN [k \in keys |->
           IF \E d \in deps : k = DependencyKey(d)
           THEN steps[CHOOSE d \in deps : k = DependencyKey(d)].result
           ELSE steps[s].input_data[k]]

\* An executor that puts a failed step back to IDLE, to be tried again.
StepAfter_retry(step, s, outcome) ==
    IF outcome = "completed"
    THEN [step EXCEPT !.status = COMPLETED, !.result = OutputOf(s)]
    ELSE [step EXCEPT !.status = IDLE, !.error = "retry"]

\* An executor without its except clause: an exception leaves the step RUNNING.
StepAfter_uncaught(step, s, outcome) ==
    CASE outcome = "completed" ->
            [step EXCEPT !.status = COMPLETED, !.result = OutputOf(s)]
      [] outcome = "error" ->
            [step EXCEPT !.status = ERROR, !.error = "task.error_message"]
      [] OTHER -> step

\* An executor that keeps the output of a task that came back in ERROR.
StepAfter_partial(step, s, outcome) ==
    CASE outcome = "completed" ->
            [step EXCEPT !.status = COMPLETED, !.result = OutputOf(s)]
      [] outcome = "completed_empty" ->
            [step EXCEPT !.status = COMPLETED, !.result = Dict({})]
      [] outcome = "error" ->
            [step EXCEPT !.status = ERROR, !.result = OutputOf(s),
                         !.error = "task.error_message"]
      [] OTHER ->
            [step EXCEPT !.status = ERROR, !.error = "str(e)"]

\* The step after its executor has finished with the given outcome.
StepAfter(step, s, outcome) ==
    CASE outcome = "completed" ->
            [step EXCEPT !.status = COMPLETED, !.result = OutputOf(s)]
      [] outcome = "error" ->
            [step EXCEPT !.status = ERROR, !.error = "task.error_message"]
      [] outcome = "raise" ->
            [step EXCEPT !.status = ERROR, !.error = "str(e): agent raised"]
      [] outcome = "create_raise" ->
            [step EXCEPT !.status = ERROR, !.error = "str(e): create_agent raised"]
      [] outcome = "completed_empty" ->
            [step EXCEPT !.status = COMPLETED, !.result = Dict({})]

\* The executors of one wave start in the order gather received them.
MayStart(s) ==
    /\ executor[s].pc = "created"
    /\ \A t \in StepIds :
           (t < s /\ executor[t].call = executor[s].call /\ executor[t].wave = executor[s].wave)
               => executor[t].pc # "created"

\* The executor of step s runs up to its await: it takes the first idle agent of
\* the step's type or creates one, registers the task and calls the agent.
ExecStart(s) ==
    /\ ~Spinning
    /\ s \in StepIds
    /\ MayStart(s)
    /\ LET idle == IdleAgentsOfType(steps[s].agent_type)
       IN /\ agents' = IF idle # {} THEN agents ELSE create_agent(steps[s].agent_type)
          /\ executor' = [executor EXCEPT ![s].pc = "awaiting",
                              ![s].agent = IF idle # {} THEN FirstOf(idle) ELSE Len(agents) + 1,
                              ![s].input = MergedInput(s)]
    /\ active_tasks' = active_tasks \cup {s}
    /\ UNCHANGED <<workflows, steps, calls, replies>>

\* No idle agent of the type exists and create_agent raises: the executor's
\* except clause marks the step and the executor is over.
ExecCreateFails(s) ==
    /\ ~Spinning
    /\ s \in StepIds
    /\ MayStart(s)
    /\ IdleAgentsOfType(steps[s].agent_type) = {}
    /\ steps' = [steps EXCEPT ![s] = StepAfter(steps[s], s, "create_raise")]
    /\ executor' = [executor EXCEPT ![s].pc = "done", ![s].outcome = "create_raise"]
    /\ UNCHANGED <<workflows, agents, active_tasks, calls, replies>>

\* AgentManager.execute_task after its await: a returned task is removed from
\* active_tasks, an exception leaves it there and is re-raised.
TasksAfter(s, outcome) ==
    IF outcome = "raise" THEN active_tasks ELSE active_tasks \ {s}

\* A failure that aborts the batch: the steps still RUNNING in the same wave are
\* marked ERROR with it.
ExecFinish_abort(s, outcome) ==
    /\ ~Spinning
    /\ s \in StepIds
    /\ executor[s].pc = "awaiting"
    /\ executor[s].plan \in {"any", outcome}
    /\ steps' = [t \in StepIds |->
                    IF t = s THEN StepAfter(steps[s], s, outcome)
                    ELSE IF /\ outcome # "completed"
                            /\ executor[t].call = executor[s].call
                            /\ executor[t].wave = executor[s].wave
                            /\ steps[t].status = RUNNING
                         THEN [steps[t] EXCEPT !.status = ERROR, !.error = "aborted"]
                         ELSE steps[t]]
    /\ executor' = [executor EXCEPT ![s].pc = "done", ![s].outcome = outcome]
    /\ active_tasks' = TasksAfter(s, outcome)
    /\ UNCHANGED <<workflows, agents, calls, replies>>

\* Executors of a wave that share the place of the output: the output of a task
\* is lost when another executor of the wave is still at its await.
ExecFinish_race(s, outcome) ==
    /\ ~Spinning
    /\ s \in StepIds
    /\ executor[s].pc = "awaiting"
    /\ executor[s].plan \in {"any", outcome}
    /\ steps' = [steps EXCEPT ![s] =
                    IF \E t \in StepIds \ {s} :
                           /\ executor[t].call = executor[s].call
                           /\ executor[t].wave = executor[s].wave
                           /\ executor[t].pc = "awaiting"
                    THEN [StepAfter(steps[s], s, outcome) EXCEPT !.result = NoneDict]
                    ELSE StepAfter(steps[s], s, outcome)]
    /\ executor' = [executor EXCEPT ![s].pc = "done", ![s].outcome = outcome]
    /\ active_tasks' = TasksAfter(s, outcome)
    /\ UNCHANGED <<workflows, agents, calls, replies>>

\* The agent call of step s ends and the executor stores the outcome.
ExecFinish(s, outcome) ==
    /\ ~Spinning
    /\ s \in StepIds
    /\ executor[s].pc = "awaiting"
    /\ executor[s].plan \in {"any", outcome}
    /\ steps' = [steps EXCEPT ![s] = StepAfter(steps[s], s, outcome)]
    /\ executor' = [executor EXCEPT ![s].pc = "done", ![s].outcome = outcome]
    /\ active_tasks' = TasksAfter(s, outcome)
    /\ UNCHANGED <<workflows, agents, calls, replies>>

\* ------------------------------------------------------------ specification
Next ==
    \/ \E wid \in WorkflowIds : create_workflow(wid)
    \/ \E wid \in WorkflowIds, agent_type \in AgentTypes,
          depends_on \in DependsOnInputs(Len(steps) + 1) :
              add_workflow_step(wid, agent_type, EmptyDict, depends_on)
    \/ \E wid \in WorkflowIds \cup {UnknownWorkflowId} : execute_workflow(wid, MaxRuns)
    \/ \E c \in 1..Len(calls) : Resume(c)
    \/ \E c \in 1..Len(calls) : Spin(c)
    \/ \E s \in 1..MaxSteps : ExecStart(s)
    \/ \E s \in 1..MaxSteps : ExecCreateFails(s)
    \/ \E s \in 1..MaxSteps, outcome \in AgentOutcomes : ExecFinish(s, outcome)

Spec == Init /\ [][Next]_vars


\* Calls that do not overlap: execute_workflow is called only when every earlier
\* call has returned or raised.
NoCallInProgress == \A c \in 1..Len(calls) : calls[c].pc \in {"returned", "raised"}

NextSeq ==
    \/ \E wid \in WorkflowIds : create_workflow(wid)
    \/ \E wid \in WorkflowIds, agent_type \in AgentTypes,
          depends_on \in DependsOnInputs(Len(steps) + 1) :
              add_workflow_step(wid, agent_type, EmptyDict, depends_on)
    \/ \E wid \in WorkflowIds \cup {UnknownWorkflowId} :
          NoCallInProgress /\ execute_workflow(wid, MaxRuns)
    \/ \E c \in 1..Len(calls) : Resume(c)
    \/ \E s \in 1..MaxSteps : ExecStart(s)
    \/ \E s \in 1..MaxSteps : ExecCreateFails(s)
    \/ \E s \in 1..MaxSteps, outcome \in AgentOutcomes : ExecFinish(s, outcome)

\* The event loop runs every task that is ready, and every agent call ends.
Fairness ==
    /\ \A c \in 1..MaxRuns : WF_vars(Resume(c))
    /\ \A s \in 1..MaxSteps : WF_vars(ExecStart(s) \/ ExecCreateFails(s))
    /\ \A s \in 1..MaxSteps : WF_vars(\E outcome \in AgentOutcomes : ExecFinish(s, outcome))

FairSeqSpec == Init /\ [][NextSeq]_vars /\ Fairness

\* Calls that may overlap, under the same scheduling.
FairSpec == Init /\ [][Next]_vars /\ Fairness


\* Calls that do not overlap, on steps that carry input_data, with agents that
\* may also complete a task with an empty output.
NextData ==
    \/ \E wid \in WorkflowIds : create_workflow(wid)
    \/ \E wid \in WorkflowIds, agent_type \in AgentTypes,
          input_data \in InputDataInputs(Len(steps) + 1),
          depends_on \in DependsOnInputs(Len(steps) + 1) :
              add_workflow_step(wid, agent_type, input_data, depends_on)
    \/ \E wid \in WorkflowIds \cup {UnknownWorkflowId} :
          NoCallInProgress /\ execute_workflow(wid, MaxRuns)
    \/ \E c \in 1..Len(calls) : Resume(c)
    \/ \E s \in 1..MaxSteps : ExecStart(s)
    \/ \E s \in 1..MaxSteps : ExecCreateFails(s)
    \/ \E s \in 1..MaxSteps, outcome \in DataOutcomes : ExecFinish(s, outcome)

DataSpec == Init /\ [][NextData]_vars


\* Calls that do not overlap, of the workflow id that create_workflow returned, on
\* steps for which the answer of the agent is fixed when the step is added, with
\* a create_agent that succeeds.
NextPlanned ==
    \/ \E wid \in WorkflowIds : create_workflow(wid)
    \/ \E wid \in WorkflowIds, agent_type \in AgentTypes,
          depends_on \in DependsOnInputs(Len(steps) + 1), plan \in AgentOutcomes :
              AddStep(wid, agent_type, EmptyDict, depends_on, plan)
    \/ \E wid \in WorkflowIds : NoCallInProgress /\ execute_workflow(wid, MaxRuns)
    \/ \E c \in 1..Len(calls) : Resume(c)
    \/ \E s \in 1..MaxSteps : ExecStart(s)
    \/ \E s \in 1..MaxSteps, outcome \in AgentOutcomes : ExecFinish(s, outcome)

PlannedSpec == Init /\ [][NextPlanned]_vars


\* Two workflows whose steps ask for the same type (not that of the default
\* agent), run by calls that do not overlap, with agents that return their task,
\* and chats with the agents of the pool between the runs.
PoolWorkflowIds == {"w1", "w2"}

PoolOutcomes == {"completed", "error"}

NextPool ==
    \/ \E wid \in PoolWorkflowIds : create_workflow(wid)
    \/ \E wid \in PoolWorkflowIds, agent_type \in AgentTypes :
          add_workflow_step(wid, agent_type, EmptyDict, {})
    \/ \E wid \in PoolWorkflowIds : NoCallInProgress /\ execute_workflow(wid, MaxRuns)
    \/ \E c \in 1..Len(calls) : Resume(c)
    \/ \E a \in 1..(MaxSteps + 1) : Len(calls) >= 1 /\ process_message(a)
    \/ \E a \in 1..(MaxSteps + 1), status \in {COMPLETED, ERROR} :
          process_message_ends(a, status)
    \/ \E s \in 1..MaxSteps : ExecStart(s)
    \/ \E s \in 1..MaxSteps : ExecCreateFails(s)
    \/ \E s \in 1..MaxSteps, outcome \in PoolOutcomes : ExecFinish(s, outcome)

PoolSpec == Init /\ [][NextPool]_vars


\* Calls that do not overlap, and a caller that marks the workflow ERROR while a
\* wave is in flight.
NextCancel ==
    \/ \E wid \in WorkflowIds : create_workflow(wid)
    \/ \E wid \in WorkflowIds, agent_type \in AgentTypes,
          depends_on \in DependsOnInputs(Len(steps) + 1) :
              add_workflow_step(wid, agent_type, EmptyDict, depends_on)
    \/ \E wid \in WorkflowIds : NoCallInProgress /\ execute_workflow(wid, MaxRuns)
    \/ \E wid \in WorkflowIds : mark_workflow_error(wid)
    \/ \E c \in 1..Len(calls) : Resume(c)
    \/ \E s \in 1..MaxSteps : ExecStart(s)
    \/ \E s \in 1..MaxSteps : ExecCreateFails(s)
    \/ \E s \in 1..MaxSteps, outcome \in AgentOutcomes : ExecFinish(s, outcome)

CancelSpec == Init /\ [][NextCancel]_vars


\* A workflow of independent steps run by calls that do not overlap, over a pool
\* in which clients register agents and chat with them before the first run
\* (which dispatches every step).
NextAssign ==
    \/ \E wid \in WorkflowIds : create_workflow(wid)
    \/ \E wid \in WorkflowIds, agent_type \in AgentTypes :
          add_workflow_step(wid, agent_type, EmptyDict, {})
    \/ \E wid \in WorkflowIds : NoCallInProgress /\ execute_workflow(wid, MaxRuns)
    \/ \E c \in 1..Len(calls) : Resume(c)
    \/ \E agent_type \in AgentTypes : Len(calls) = 0 /\ register_agent(agent_type)
    \/ \E a \in 1..(MaxSteps + 1) : Len(calls) = 0 /\ process_message(a)
    \/ \E a \in 1..(MaxSteps + 1), status \in {COMPLETED, ERROR} :
          process_message_ends(a, status)
    \/ \E s \in 1..MaxSteps : ExecStart(s)
    \/ \E s \in 1..MaxSteps : ExecCreateFails(s)
    \/ \E s \in 1..MaxSteps, outcome \in PoolOutcomes : ExecFinish(s, outcome)

AssignSpec == Init /\ [][NextAssign]_vars


\* Calls of execute_workflow that do not overlap, and the synchronous calls of
\* the API made at any point between two segments of the scheduler, with
\* registered and unregistered ids.  A step depends on nothing or on the step
\* before it (the first one: on a missing id), and the agents return their task.
ApiDependsOn(n) == {{}, {IF n > 1 THEN n - 1 ELSE MissingStepId}}

NextApi ==
    \/ \E wid \in WorkflowIds : create_workflow(wid)
    \/ \E wid \in WorkflowIds, agent_type \in AgentTypes,
          depends_on \in ApiDependsOn(Len(steps) + 1) :
              add_workflow_step(wid, agent_type, EmptyDict, depends_on)
    \/ \E wid \in WorkflowIds \cup {UnknownWorkflowId} : add_workflow_step_raises(wid)
    \/ \E wid \in WorkflowIds \cup {UnknownWorkflowId} : get_workflow_status(wid)
    \/ \E wid \in WorkflowIds \cup {UnknownWorkflowId} :
          NoCallInProgress /\ execute_workflow(wid, MaxRuns)
    \/ \E c \in 1..Len(calls) : Resume(c)
    \/ \E s \in 1..MaxSteps : ExecStart(s)
    \/ \E s \in 1..MaxSteps : ExecCreateFails(s)
    \/ \E s \in 1..MaxSteps, outcome \in PoolOutcomes : ExecFinish(s, outcome)

ApiSpec == Init /\ [][NextApi]_vars


\* ------------------------------------------------------------------ claims
Calls == 1..Len(calls)

Terminal(s) == steps[s].status \in {COMPLETED, ERROR}

\* Step s is dispatched by the step being taken.
Starts(s) == steps[s].status = IDLE /\ steps'[s].status = RUNNING

\* C1: a step moves from Idle to Running only in a state where every id of its
\* depends_on names a step of the same workflow whose status is Completed.
C1_StartsAfterDependencies ==
    [][\A s \in StepIds :
          Starts(s) =>
              \A d \in steps[s].depends_on :
                  d \in StepsOf(steps[s].wf) /\ steps[d].status = COMPLETED]_vars

\* A step with two dependencies has been dispatched.
C1_Witness ==
    \E s \in StepIds :
        /\ steps[s].status = RUNNING
        /\ Cardinality(steps[s].depends_on) >= 2

\* C2: a call that leaves the loop through the deadlock branch returns status
\* Error, whatever the cause of the deadlock.
C2_DeadlockReturnsError ==
    \A c \in Calls :
        (calls[c].pc = "returned" /\ calls[c].ret.deadlock) => calls[c].ret.status = ERROR

\* Call c has been made and has neither returned nor raised.
CallInProgress(c) ==
    IF c \in Calls THEN calls[c].pc \in {"gather", "spin"} ELSE FALSE

\* Call c has returned a terminal status.
CallReturned(c) ==
    IF c \in Calls
    THEN calls[c].pc = "returned" /\ calls[c].ret.status \in {COMPLETED, ERROR}
    ELSE FALSE

\* C3: every call of execute_workflow on a registered workflow returns in the end,
\* with status Completed or Error (calls that do not overlap).
C3_CallReturns ==
    \A c \in 1..MaxRuns : CallInProgress(c) ~> CallReturned(c)

\* A call that waited for two waves has returned with a failed step and a step
\* that never became ready.
C3_Witness ==
    \E c \in Calls :
        /\ calls[c].pc = "returned"
        /\ calls[c].nwaves >= 2
        /\ \E s \in StepsOf(calls[c].wid) : steps[s].status = ERROR
        /\ \E s \in StepsOf(calls[c].wid) : steps[s].status = IDLE

\* C4: the executor is created at most once for every step, over all calls.
C4_AtMostOneExecutor ==
    \A s \in StepIds : executor[s].invoked <= 1

\* Two calls on the same workflow overlap, each waiting for a wave of its own.
C4_Witness ==
    /\ Len(calls) >= 2
    /\ calls[1].pc = "gather" /\ calls[2].pc = "gather"
    /\ calls[1].wid = calls[2].wid
    /\ \E s \in StepIds : executor[s].call = 2 /\ executor[s].invoked = 1
    /\ \E s \in StepIds : executor[s].call = 1 /\ Terminal(s)

\* C5: every change of a step's status is Idle->Running, Running->Completed or
\* Running->Error.
C5_StatusTransitions ==
    [][\A s \in StepIds :
          steps'[s].status # steps[s].status =>
              \/ steps[s].status = IDLE /\ steps'[s].status = RUNNING
              \/ steps[s].status = RUNNING /\ steps'[s].status = COMPLETED
              \/ steps[s].status = RUNNING /\ steps'[s].status = ERROR]_vars

\* Both terminal statuses have been reached, and a second call has been made.
C5_Witness ==
    /\ \E s \in StepIds : steps[s].status = COMPLETED
    /\ \E s \in StepIds : steps[s].status = ERROR
    /\ \E c \in Calls : c >= 2 /\ calls[c].pc = "returned"

\* The steps of workflow wid that list a step of S in depends_on.
Dependents(S, wid) == {t \in StepsOf(wid) : steps[t].depends_on \cap S # {}}

RECURSIVE DependentsClosure(_, _, _)
DependentsClosure(S, wid, n) ==
    IF n = 0 THEN S ELSE DependentsClosure(S \cup Dependents(S, wid), wid, n - 1)

\* The steps that depend on s directly or transitively.
TransitiveDependents(s) ==
    DependentsClosure(Dependents({s}, steps[s].wf), steps[s].wf, MaxSteps)

\* C6: a step that depends, directly or transitively, on a step in Error is never
\* dispatched: it is Idle with no result and no error, and no returned results
\* mapping has an entry for it.
C6_DependentsOfErrorStayIdle ==
    \A s \in StepIds :
        steps[s].status = ERROR =>
            \A t \in TransitiveDependents(s) :
                /\ steps[t].status = IDLE
                /\ steps[t].result = NoneDict
                /\ steps[t].error = None
                /\ executor[t].invoked = 0
                /\ \A c \in Calls :
                       calls[c].pc = "returned" => t \notin DOMAIN calls[c].ret.results

\* A call has returned with a failed step, a direct and an indirect dependent.
C6_Witness ==
    \E s \in StepIds, c \in Calls :
        /\ steps[s].status = ERROR
        /\ calls[c].pc = "returned" /\ calls[c].wid = steps[s].wf
        /\ TransitiveDependents(s) \ Dependents({s}, steps[s].wf) # {}

\* The executor of step s ends in failure in the step being taken.
Fails(s) == steps[s].status = RUNNING /\ steps'[s].status = ERROR

\* C7: a failing executor changes its own step only, to Error with a message, and
\* leaves the waiting call where it is; the call goes on when all steps of the wave
\* have ended, each according to its own outcome.
C7_FailureIsConfined ==
    [][/\ \A s \in StepIds :
             Fails(s) =>
                 /\ steps'[s].error # None
                 /\ \A t \in StepIds \ {s} : steps'[t] = steps[t]
                 /\ \A t \in StepIds \ {s} : executor'[t] = executor[t]
                 /\ calls' = calls
                 /\ workflows' = workflows
       /\ \A c \in Calls :
             (calls[c].pc = "gather" /\ calls'[c].pc # "gather") =>
                 \A t \in calls[c].wave :
                     /\ Terminal(t)
                     /\ steps[t].status = COMPLETED <=> executor[t].outcome = "completed"]_vars

\* In one wave a step failed by an exception and another completed, and the call
\* went on to dispatch a second wave.
C7_Witness ==
    \E s, t \in StepIds, c \in Calls :
        /\ executor[s].call = c /\ executor[t].call = c
        /\ executor[s].wave = 1 /\ executor[t].wave = 1
        /\ executor[s].outcome = "raise" /\ steps[s].status = ERROR
        /\ steps[t].status = COMPLETED
        /\ calls[c].nwaves >= 2

\* Call c returns in the step being taken.
Returns(c) == calls'[c].pc = "returned" /\ (c \notin Calls \/ calls[c].pc # "returned")

\* C8: a call that returns while a step of the workflow is in Error returns status
\* Error.
C8_ErrorStepGivesError ==
    [][\A c \in 1..MaxRuns :
          (c \in 1..Len(calls') /\ Returns(c)
              /\ \E s \in StepsOf(calls'[c].wid) : steps[s].status = ERROR)
          => calls'[c].ret.status = ERROR]_vars

\* A call returned Error with one step in Error, the others Completed, none Idle.
C8_Witness ==
    \E c \in Calls :
        /\ calls[c].pc = "returned" /\ calls[c].ret.status = ERROR
        /\ Cardinality({s \in StepsOf(calls[c].wid) : steps[s].status = ERROR}) = 1
        /\ Cardinality({s \in StepsOf(calls[c].wid) : steps[s].status = COMPLETED}) >= 2
        /\ \A s \in StepsOf(calls[c].wid) : Terminal(s)

\* C9 as stated: no call of execute_workflow raises.
C9_NeverRaises ==
    \A c \in Calls : calls[c].pc # "raised"

\* C9 amended: a call raises exactly when its workflow id is not registered, and
\* it raises at once; a call on a registered workflow never raises, and what it
\* returns has status Completed or Error.
C9_RaisesOnlyForUnknownId ==
    [][\A c \in 1..MaxRuns :
          c \in 1..Len(calls') =>
              /\ c \notin Calls =>
                    (calls'[c].pc = "raised" <=> calls'[c].wid \notin DOMAIN workflows)
              /\ c \in Calls =>
                    (calls'[c].pc = "raised" => calls[c].pc = "raised")
              /\ calls'[c].pc = "returned" => calls'[c].ret.status \in {COMPLETED, ERROR}]_vars

\* A call with an unregistered id has raised, and a call on a registered workflow
\* has returned Error after an agent call raised and the creation of an agent
\* raised.
C9_Witness ==
    \E c, u \in Calls :
        /\ calls[u].pc = "raised"
        /\ calls[c].pc = "returned" /\ calls[c].ret.status = ERROR
        /\ \E s \in StepsOf(calls[c].wid) : executor[s].outcome = "raise"
        /\ \E s \in StepsOf(calls[c].wid) : executor[s].outcome = "create_raise"

\* C10: when a call dispatches a step, no step that the same call dispatched in an
\* earlier wave is still Running.
C10_WaveBarrier ==
    [][\A s \in StepIds :
          Starts(s) =>
              \A t \in StepIds :
                  (executor[t].call = executor'[s].call /\ executor[t].wave < executor'[s].wave)
                      => Terminal(t)]_vars

\* A step of the second wave is running and does not depend on some step of the
\* first wave of the same call.
C10_Witness ==
    \E s, t \in StepIds :
        /\ steps[s].status = RUNNING
        /\ executor[s].wave = 2 /\ executor[t].wave = 1
        /\ executor[s].call = executor[t].call
        /\ t \notin steps[s].depends_on


\* C12: two executors that wait for their agent at the same time were never
\* assigned the same pool entry.
C12_NoSharedAgent ==
    \A s, t \in StepIds :
        (s # t /\ executor[s].pc = "awaiting" /\ executor[t].pc = "awaiting")
            => executor[s].agent # executor[t].agent

\* The dependency ids of step s that name no step of its workflow.
MissingDependencies(s) == steps[s].depends_on \ StepsOf(steps[s].wf)

\* C18 as stated: when a call has returned, a step with a dependency id that names
\* no step is in Error with a message.
C18_MissingDependencyIsError ==
    \A c \in Calls, s \in StepIds :
        (calls[c].pc = "returned" /\ steps[s].wf = calls[c].wid
            /\ MissingDependencies(s) # {})
        => (steps[s].status = ERROR /\ steps[s].error # None)

\* C18 amended: a step with a dependency id that names no step is never
\* dispatched; it stays Idle without result and without error, and a call on its
\* workflow leaves the loop through the deadlock branch.
C18_MissingDependencyStaysIdle ==
    \A s \in StepIds :
        MissingDependencies(s) # {} =>
            /\ steps[s].status = IDLE
            /\ steps[s].error = None
            /\ steps[s].result = NoneDict
            /\ executor[s].invoked = 0
            /\ \A c \in Calls :
                   (calls[c].pc = "returned" /\ calls[c].wid = steps[s].wf)
                       => calls[c].ret.deadlock

\* A call has returned on a workflow in which one step completed and another
\* depends on it and on nothing else but a missing id.
C18_Witness ==
    \E c \in Calls, s, t \in StepIds :
        /\ calls[c].pc = "returned"
        /\ steps[s].wf = calls[c].wid /\ steps[t].wf = calls[c].wid
        /\ MissingDependencies(s) # {}
        /\ steps[t].status = COMPLETED

\* C19: a call on a registered workflow without steps finds is_completed true and
\* returns at once, Completed, with no results, and the pool and the executors are
\* as they were.
C19_EmptyWorkflowCompletes ==
    [][\A c \in 1..MaxRuns :
          (c \in 1..Len(calls') /\ c \notin Calls
              /\ calls'[c].wid \in DOMAIN workflows /\ StepsOf(calls'[c].wid) = {})
          => /\ is_completed(calls'[c].wid)
             /\ calls'[c].pc = "returned"
             /\ calls'[c].ret.status = COMPLETED
             /\ DOMAIN calls'[c].ret.results = {}
             /\ workflows'[calls'[c].wid].status = COMPLETED
             /\ agents' = agents
             /\ executor' = executor
             /\ active_tasks' = active_tasks]_vars

\* A call on a workflow without steps has returned.
C19_Witness ==
    \E c \in Calls :
        /\ calls[c].pc = "returned"
        /\ calls[c].wid \in DOMAIN workflows
        /\ StepsOf(calls[c].wid) = {}

\* The agent of step s has been called with an input.
AgentCalled(s) ==
    \/ executor[s].pc = "awaiting"
    \/ executor[s].pc = "done" /\ executor[s].outcome # "create_raise"

\* C13: for every dispatched step S and every id d in S.depends_on that names a
\* step of the workflow with a non-null (possibly empty) result, the input handed
\* to the agent for S has the key dependency_<d> with exactly that result as value.
C13_DependencyResultsInjected ==
    \A s \in StepIds :
        AgentCalled(s) =>
            \A d \in steps[s].depends_on \cap StepsOf(steps[s].wf) :
                ~steps[d].result.isNone =>
                    /\ DependencyKey(d) \in DOMAIN executor[s].input
                    /\ executor[s].input[DependencyKey(d)] = steps[d].result

\* C14: injecting dependency results never overwrites a key the caller supplied:
\* the stored input of the step and the input handed to the agent both still map
\* every such key to the caller's value.
C14_CallerKeysKept ==
    \A s \in StepIds :
        \A k \in DOMAIN steps[s].input_data :
            /\ steps[s].input_data[k] = CallerValue
            /\ AgentCalled(s) =>
                  (k \in DOMAIN executor[s].input /\ executor[s].input[k] = CallerValue)

\* C15: the results mapping returned by execute_workflow has exactly the entries
\* step.id -> step.result of the steps whose result is non-null (an empty result
\* included).
C15_ResultsOfNonNull ==
    \A c \in Calls :
        (calls[c].pc = "returned" /\ NoCallInProgress /\ c = Len(calls)) =>
            LET wid == calls[c].wid
                nonNull == {s \in StepsOf(wid) : ~steps[s].result.isNone}
            IN /\ DOMAIN calls[c].ret.results = nonNull
               /\ \A s \in nonNull : calls[c].ret.results[s] = steps[s].result

\* The steps that are terminal, and those of them that are completed, when the
\* waves of workflow wid are run one whole wave at a time from the state where
\* the steps of done are terminal and those of completed are completed.
RECURSIVE WaveByWave(_, _, _)
WaveByWave(wid, completed, done) ==
    LET ready == {s \in StepsOf(wid) \ done : steps[s].depends_on \subseteq completed}
    IN IF ready = {} THEN [completed |-> completed, done |-> done]
       ELSE WaveByWave(wid,
                       completed \cup {s \in ready : executor[s].plan = "completed"},
                       done \cup ready)

\* What the dependency graph and the fixed answers alone give for workflow wid.
ExpectedStatus(wid) ==
    LET end == WaveByWave(wid, {}, {})
    IN IF end.done \ end.completed # {} THEN ERROR ELSE COMPLETED

ExpectedResults(wid) ==
    [s \in WaveByWave(wid, {}, {}).completed |-> OutputOf(s)]

\* Call c reaches its await in the step being taken: it has evaluated readiness
\* and dispatched a wave.
Dispatches(c) ==
    /\ c \in 1..Len(calls')
    /\ calls'[c].pc = "gather"
    /\ c \in Calls => calls'[c] # calls[c]

\* C11: in each loop iteration every step that is ready at the readiness
\* evaluation is marked Running before any executor of the wave makes progress
\* (the executors of the wave exist and have not run); all steps with empty
\* depends_on are Running together in the first wave; and the status a call
\* returns is the one the graph and the answers give, whatever the order in which
\* the executors of a wave finish.
C11_WaveMarkedBeforeProgress ==
    [][\A c \in 1..MaxRuns :
          /\ Dispatches(c) =>
                LET wid == calls'[c].wid
                    ready == get_ready_steps(wid)
                IN /\ ready # {}
                   /\ calls'[c].wave = ready
                   /\ \A s \in ready :
                          /\ steps'[s].status = RUNNING
                          /\ executor'[s].pc = "created"
                          /\ executor'[s].wave = calls'[c].nwaves
                   /\ (\A s \in StepsOf(wid) : steps[s].status = IDLE) =>
                          \A s \in StepsOf(wid) :
                              steps[s].depends_on = {} =>
                                  (steps'[s].status = RUNNING /\ executor'[s].wave = 1)
          /\ (c \in 1..Len(calls') /\ Returns(c)) =>
                calls'[c].ret.status = ExpectedStatus(calls'[c].wid)]_vars

\* A call has returned whose first wave held two steps without dependencies, the
\* agent answering differently for the two.
C11_Witness ==
    \E c \in Calls :
        /\ calls[c].pc = "returned"
        /\ \E s, t \in StepsOf(calls[c].wid) :
               /\ s < t
               /\ steps[s].depends_on = {} /\ steps[t].depends_on = {}
               /\ executor[s].wave = 1 /\ executor[t].wave = 1
               /\ executor[s].call = c /\ executor[t].call = c
               /\ executor[s].plan # executor[t].plan

\* C16: for a fixed dependency graph and fixed per-step outcomes, the status and
\* the results mapping a call of execute_workflow returns are those that the
\* graph and the outcomes alone give, for every order in which the executors
\* inside each wave start and finish.
C16_ReturnIsDetermined ==
    \A c \in Calls :
        calls[c].pc = "returned" =>
            /\ calls[c].ret.status = ExpectedStatus(calls[c].wid)
            /\ calls[c].ret.results = ExpectedResults(calls[c].wid)

\* A call has returned results after a wave of two steps with different answers.
C16_Witness ==
    \E c \in Calls :
        /\ calls[c].pc = "returned"
        /\ DOMAIN calls[c].ret.results # {}
        /\ \E s, t \in StepsOf(calls[c].wid) :
               /\ s # t
               /\ executor[s].call = c /\ executor[t].call = c
               /\ executor[s].wave = executor[t].wave
               /\ executor[s].outcome = "completed"
               /\ executor[t].outcome \in {"error", "raise"}

\* The pool entries that call c used for steps of type agent_type.
UsedBy(c, agent_type) ==
    {executor[t].agent : t \in {u \in StepIds : /\ executor[u].call = c
                                                 /\ AgentCalled(u)
                                                 /\ steps[u].agent_type = agent_type}}

\* The executor of step s looks for its agent in the step being taken.
LooksUp(s) == s \in StepIds /\ executor[s].pc = "created" /\ executor'[s].pc = "awaiting"

\* C17: when two workflows that ask for the same agent_type are run one after the
\* other, a step of the second run is assigned the pool entry the first run used
\* for that type, provided the entry is Idle, and the pool does not grow.
C17_SecondRunReusesEntry ==
    [][\A s \in 1..MaxSteps :
          LooksUp(s) =>
              \A c \in Calls :
                  (c < executor[s].call /\ calls[c].wid # steps[s].wf) =>
                      LET used == UsedBy(c, steps[s].agent_type)
                      IN (\E a \in used : agents[a].status = IDLE) =>
                             /\ executor'[s].agent \in used
                             /\ agents[executor'[s].agent].status = IDLE
                             /\ agents' = agents]_vars

\* A step of the second workflow run holds the entry that a step of the first
\* workflow run created, and the pool has the default entry and that one.
C17_Witness ==
    \E s, t \in StepIds :
        /\ steps[t].wf # steps[s].wf
        /\ steps[t].agent_type = steps[s].agent_type
        /\ executor[t].call = 1 /\ executor[s].call = 2
        /\ AgentCalled(t) /\ AgentCalled(s)
        /\ executor[s].agent = executor[t].agent
        /\ executor[s].agent = Len(agents)
        /\ Len(agents) = 2
        /\ \E a \in 1..Len(agents) : agents[a].status \in {COMPLETED, ERROR}

\* C20: if a caller sets the workflow's status to Error while a wave is in flight,
\* the scheduler loop makes no further progress: no step of the workflow is
\* dispatched after that wave settles.
C20_MarkedErrorStopsLoop ==
    [][\A c \in Calls :
          (calls[c].pc = "gather" /\ workflows[calls[c].wid].status = ERROR) =>
              \A s \in StepsOf(calls[c].wid) : ~Starts(s)]_vars

\* The reply that the step being taken gives, for operation op.
Replies(op) == Len(replies') > Len(replies) /\ replies'[Len(replies')].op = op

\* C21: get_workflow_status is read-only: called in any reachable state, also
\* while a wave is in flight, it changes no workflow, step or agent field; it
\* reports the current status and error of each step of the workflow, and gives
\* None for an id that is not registered.
C21_StatusIsReadOnly ==
    [][Replies("get_workflow_status") =>
          LET r == replies'[Len(replies')]
          IN /\ workflows' = workflows /\ steps' = steps /\ agents' = agents
             /\ active_tasks' = active_tasks /\ calls' = calls /\ executor' = executor
             /\ ~r.raised
             /\ IF r.wid \in DOMAIN workflows
                THEN /\ ~r.value.isNone
                     /\ r.value.status = workflows[r.wid].status
                     /\ DOMAIN r.value.steps = StepsOf(r.wid)
                     /\ \A s \in StepsOf(r.wid) :
                            /\ r.value.steps[s].status = steps[s].status
                            /\ r.value.steps[s].error = steps[s].error
                ELSE r.value = NoneReport]_vars

\* A report taken while a wave is in flight, after a step failed.
C21_Witness ==
    \E i \in 1..Len(replies) :
        /\ replies[i].op = "get_workflow_status"
        /\ ~replies[i].value.isNone
        /\ \E s, t \in DOMAIN replies[i].value.steps :
               /\ replies[i].value.steps[s].status = ERROR
               /\ replies[i].value.steps[s].error # None
               /\ replies[i].value.steps[t].status = RUNNING

\* C29: add_workflow_step and execute_workflow called with a workflow id that is
\* not registered raise ValueError and leave the workflow registry, the steps and
\* status of every workflow and the agent pool unchanged.
C29_UnknownIdRaisesAndKeeps ==
    [][/\ Replies("add_workflow_step") =>
             /\ replies'[Len(replies')].wid \notin DOMAIN workflows
             /\ replies'[Len(replies')].raised
             /\ workflows' = workflows /\ steps' = steps /\ agents' = agents
       /\ \A c \in 1..MaxRuns :
             (c \in 1..Len(calls') /\ c \notin Calls
                 /\ calls'[c].wid \notin DOMAIN workflows) =>
                 /\ calls'[c].pc = "raised"
                 /\ workflows' = workflows /\ steps' = steps /\ agents' = agents
                 /\ executor' = executor /\ active_tasks' = active_tasks]_vars

\* Both calls have raised for the unregistered id while a workflow with steps
\* is registered.
C29_Witness ==
    /\ \E i \in 1..Len(replies) :
           /\ replies[i].op = "add_workflow_step"
           /\ replies[i].wid = UnknownWorkflowId
           /\ replies[i].raised
    /\ \E c \in Calls : calls[c].wid = UnknownWorkflowId /\ calls[c].pc = "raised"
    /\ \E wid \in DOMAIN workflows : StepsOf(wid) # {}

\* The steps of workflow wid that the specification calls ready.
ReadySteps(wid) ==
    {s \in StepsOf(wid) :
        /\ steps[s].status = IDLE
        /\ \A d \in steps[s].depends_on : d \in StepsOf(wid) /\ steps[d].status = COMPLETED}

\* C22: get_ready_steps returns exactly the steps s with status Idle such that
\* every id in s.depends_on is the id of a step of the same workflow with status
\* Completed; a dependency that is Idle, Running, in Error or absent never
\* satisfies readiness; and the evaluation changes no state: in the segment of a
\* call that evaluates it, the steps change only by the marking of these steps.
C22_ReadyStepsExact ==
    [][/\ \A wid \in DOMAIN workflows :
             /\ get_ready_steps(wid) = ReadySteps(wid)
             /\ \A s \in get_ready_steps(wid) :
                    \A d \in steps[s].depends_on :
                        /\ d \in StepsOf(wid)
                        /\ steps[d].status \notin {IDLE, RUNNING, ERROR}
       /\ calls' # calls =>
             /\ \A s \in StepIds :
                    \/ steps'[s] = steps[s]
                    \/ /\ s \in ReadySteps(steps[s].wf)
                       /\ steps'[s] = [steps[s] EXCEPT !.status = RUNNING]
             /\ \A c \in 1..MaxRuns :
                    Dispatches(c) => \A s \in ReadySteps(calls'[c].wid) : Starts(s)]_vars

\* A call has dispatched, in a later wave, a step that has a dependency, while
\* another step that has a dependency was not ready and stays idle.
C22_Witness ==
    \E c \in Calls :
        /\ calls[c].pc = "gather"
        /\ calls[c].nwaves >= 2
        /\ \E s \in calls[c].wave : steps[s].depends_on # {}
        /\ \E t \in StepsOf(calls[c].wid) :
               /\ steps[t].status = IDLE
               /\ steps[t].depends_on # {}

\* C23: in every reachable state a step's result is non-null only if its status
\* is Completed, its error is non-null only if its status is Error, and no step
\* has both a result and an error.
C23_ResultXorError ==
    \A s \in StepIds :
        /\ ~steps[s].result.isNone => steps[s].status = COMPLETED
        /\ steps[s].error # None => steps[s].status = ERROR
        /\ ~(~steps[s].result.isNone /\ steps[s].error # None)

\* One step holds a result and another an error.
C23_Witness ==
    \E s, t \in StepIds :
        /\ ~steps[s].result.isNone /\ steps[s].status = COMPLETED
        /\ steps[t].error # None /\ steps[t].status = ERROR
        /\ executor[t].outcome = "error"

C25_CompletedAtIffCompleted ==
    \A c \in Calls :
        calls[c].pc = "returned" =>
            (calls[c].ret.completed_at # None <=> calls[c].ret.status = COMPLETED)

\* C26: every return of execute_workflow happens in a state where no step of the
\* workflow is Running, also when a second call on the same workflow is started
\* while the first waits for a wave.
C26_NoRunningStepAtReturn ==
    [][\A c \in 1..MaxRuns :
          (c \in 1..Len(calls') /\ Returns(c)) =>
              \A s \in StepsOf(calls'[c].wid) : steps'[s].status # RUNNING]_vars

\* C30: every task that AgentManager.execute_task registers in active_tasks is
\* removed from it by the time that call of execute_task finishes, whether the
\* agent returns a task or raises; after execute_workflow returns, active_tasks
\* holds no task that the run created.
C30_ActiveTasksCleared ==
    /\ \A s \in StepIds : executor[s].pc = "done" => s \notin active_tasks
    /\ \A c \in Calls :
           calls[c].pc = "returned" =>
               \A s \in StepIds :
                   (executor[s].call = c /\ executor[s].pc = "done") => s \notin active_tasks

\* A second call on the workflow of the first has started while the first waits
\* for its wave.
SecondCallOverlaps ==
    IF Len(calls) >= 2
    THEN /\ calls[1].wid = calls[2].wid
         /\ calls[1].pc = "gather"
         /\ \E s \in calls[1].wave : executor[s].pc # "done"
    ELSE FALSE

BothCallsReturned ==
    IF Len(calls) >= 2
    THEN calls[1].pc = "returned" /\ calls[2].pc = "returned"
    ELSE FALSE

\* C27: when a second execute_workflow call on the same workflow starts while the
\* first is suspended waiting for its wave, both calls eventually return.
C27_OverlappingCallsReturn == SecondCallOverlaps ~> BothCallsReturned

\* C28: calling execute_workflow again on a workflow whose steps are all
\* Completed or Error invokes no agent, changes no step's status, result or
\* error, and returns the status and the results mapping of the earlier call.
C28_RerunIsIdempotent ==
    [][\A c \in 1..MaxRuns :
          (/\ c \in 1..Len(calls') /\ c \notin Calls
           /\ calls'[c].wid \in DOMAIN workflows
           /\ \A s \in StepsOf(calls'[c].wid) : Terminal(s)
           /\ \E b \in Calls : calls[b].wid = calls'[c].wid /\ calls[b].pc = "returned")
          => /\ calls'[c].pc = "returned"
             /\ steps' = steps /\ executor' = executor
             /\ agents' = agents /\ active_tasks' = active_tasks
             /\ \A b \in Calls :
                    (calls[b].wid = calls'[c].wid /\ calls[b].pc = "returned") =>
                        /\ calls'[c].ret.status = calls[b].ret.status
                        /\ calls'[c].ret.results = calls[b].ret.results]_vars

\* Two calls have returned on a workflow that has a completed step and a step in
\* error, the second without dispatching anything.
C28_Witness ==
    \E b, c \in Calls :
        /\ b < c
        /\ calls[b].wid = calls[c].wid
        /\ calls[b].pc = "returned" /\ calls[c].pc = "returned"
        /\ calls[b].nwaves >= 1 /\ calls[c].nwaves = 0
        /\ \E s, t \in StepsOf(calls[c].wid) :
               steps[s].status = COMPLETED /\ steps[t].status = ERROR
        /\ \A s \in StepsOf(calls[c].wid) : Terminal(s)

====
